---- MODULE Spec2Model ----
(***************************************************************************)
(* Model of lab/vscode/download.py: the download-then-unpack step of       *)
(* download_product for one file, the dispatcher unpack_archive and the    *)
(* extraction backends it drives.                                          *)
(*                                                                         *)
(* File names are sequences of one-character strings, file contents are    *)
(* sequences of bytes written as one-character strings.  Offsets are       *)
(* 0-based as in Python.  External tools and libraries are modelled by     *)
(* their observable outcomes (exit status, exception, files written),      *)
(* chosen nondeterministically.                                            *)
(***************************************************************************)
EXTENDS Integers, Sequences, FiniteSets, TLC

VARIABLES
    name,        \* archive_path.name (dest_path.name in download_product)
    data,        \* the bytes the download delivers
    tools,       \* keys of the dict returned by ensure_extraction_tools
    dest0,       \* extract_dir before the step: [exists, files]
    srcExists,   \* archive_path.exists()
    srcData,     \* bytes of archive_path
    srcExec,     \* executable bit of archive_path
    tempExists,  \* temp_squashfs.exists()
    tempData,    \* bytes of temp_squashfs
    destExists,  \* extract_dir.exists()
    destFiles,   \* who wrote the entries now under extract_dir: <<backend, offset>>
    pc,          \* position in download_product / unpack_archive
    class,       \* branch of unpack_archive taken
    offsets,     \* offsets list of the AppImage scan
    pending,     \* offsets the unsquashfs loop has not tried yet
    log,         \* backend invocations so far, in order
    result,      \* what unpack_archive returned
    raisedAt,    \* last place an OS-level exception was raised
    versionFile, \* .version record written by mark_downloaded
    bProd,       \* main: index of the downloader being processed
    bStage,      \* download_product: where it is for that downloader
    bPlat,       \* download_product: index of the platform being looked at
    bQueue,      \* download_product: the downloads list, as platform indices
    bHandled,    \* <<product, platform>> pairs the run has dealt with
    bAborted,    \* products download_product left by an exception, with the cause
    bClosed,     \* products whose downloader.close() has run
    onPath,      \* commands shutil.which finds on the search path
    registry,    \* the dict returned by ensure_extraction_tools: key -> command
    skipped,     \* this run found the combination already downloaded
    runLog       \* what each earlier run did with the combination

fileVars == <<name, data, tools, dest0, srcExists, srcData, srcExec,
              tempExists, tempData, destExists, destFiles, pc, class, offsets,
              pending, log, result, raisedAt, versionFile>>

batchVars == <<bProd, bStage, bPlat, bQueue, bHandled, bAborted, bClosed>>

toolVars == <<onPath, registry>>

runVars == <<skipped, runLog>>

vars == <<fileVars, batchVars, toolVars, runVars>>

(***************************************************************************)
(* Bounds                                                                  *)
(***************************************************************************)
\* chunks after the two header bytes of a downloaded file
MaxChunks == 3
\* chunks of a buffer handed to the offset scan alone
MaxScanChunks == 4
\* downloaders main iterates over
MaxProducts == 2
\* entries of PLATFORMS
MaxPlatforms == 3
\* runs of the program over the same download directory
MaxRuns == 3

(***************************************************************************)
(* Strings and bytes                                                       *)
(***************************************************************************)
Max(a, b) == IF a > b THEN a ELSE b

\* str.lower() on the characters that occur in the modelled names
LowerChar(c) ==
    CASE c = "A" -> "a"
      [] c = "D" -> "d"
      [] c = "E" -> "e"
      [] c = "G" -> "g"
      [] c = "I" -> "i"
      [] c = "M" -> "m"
      [] c = "P" -> "p"
      [] c = "R" -> "r"
      [] c = "T" -> "t"
      [] c = "X" -> "x"
      [] c = "Z" -> "z"
      [] OTHER   -> c

Lower(s) == [i \in 1..Len(s) |-> LowerChar(s[i])]

\* str.endswith
EndsWith(s, t) ==
    /\ Len(t) <= Len(s)
    /\ SubSeq(s, Len(s) - Len(t) + 1, Len(s)) = t

\* str.rfind('.') as a 1-based index, 0 when there is no dot
RFindDot(s) ==
    LET dots == {i \in 1..Len(s) : s[i] = "."}
    IN  IF dots = {} THEN 0 ELSE CHOOSE i \in dots : \A j \in dots : j <= i

\* PurePath.suffix: the last dot must be neither the first nor the last char
Suffix(s) ==
    LET i == RFindDot(s)
    IN  IF 1 < i /\ i < Len(s) THEN SubSeq(s, i, Len(s)) ELSE <<>>

\* bytes[:n]
Take(s, n) == SubSeq(s, 1, IF n < Len(s) THEN n ELSE Len(s))

\* bytes[off:] for a 0-based offset
From(s, off) == SubSeq(s, off + 1, Len(s))

DotZip      == <<".", "z", "i", "p">>
DotGz       == <<".", "g", "z">>
DotTarGz    == <<".", "t", "a", "r", ".", "g", "z">>
DotTgz      == <<".", "t", "g", "z">>
DotDmg      == <<".", "d", "m", "g">>
DotExe      == <<".", "e", "x", "e">>
DotAppimage == <<".", "a", "p", "p", "i", "m", "a", "g", "e">>

MagicMZ == <<"M", "Z">>
MagicPK == <<"P", "K">>
squashfs_magic == <<"h", "s", "q", "s">>

(***************************************************************************)
(* The offset scan of extract_appimage_with_unsquashfs                     *)
(***************************************************************************)
\* bytes.find(squashfs_magic, start): lowest 0-based index >= start, or -1
Find(d, start) ==
    LET hits == {i \in Max(start, 0)..(Len(d) - Len(squashfs_magic)) :
                    SubSeq(d, i + 1, i + Len(squashfs_magic)) = squashfs_magic}
    IN  IF hits = {} THEN -1 ELSE CHOOSE i \in hits : \A j \in hits : i <= j

\* the while-loop: append each match, restart one byte after it
RECURSIVE FindAll(_, _, _)
FindAll(d, start, acc) ==
    LET offset == Find(d, start)
    IN  IF offset = -1 THEN acc ELSE FindAll(d, offset + 1, Append(acc, offset))

\* list.remove of the first occurrence of v
RECURSIVE RemoveFirst(_, _)
RemoveFirst(s, v) ==
    IF s = <<>> THEN <<>>
    ELSE IF Head(s) = v THEN Tail(s)
    ELSE <<Head(s)>> \o RemoveFirst(Tail(s), v)

\* list.sort(reverse=True)
RECURSIVE SortReverse(_)
SortReverse(s) ==
    IF s = <<>> THEN <<>>
    ELSE LET m == CHOOSE x \in {s[i] : i \in 1..Len(s)} :
                      \A i \in 1..Len(s) : s[i] <= x
         IN  <<m>> \o SortReverse(RemoveFirst(s, m))

\* a scan that forgets to sort
UnsortedOffsets(d) == FindAll(d, 0, <<>>)

\* a scan that falls back to offset 0 when the signature is absent
SquashfsOffsetsOrZero(d) ==
    IF FindAll(d, 0, <<>>) = <<>> THEN <<0>> ELSE SortReverse(FindAll(d, 0, <<>>))

\* offsets as the trial loop receives them
SquashfsOffsets(d) == SortReverse(FindAll(d, 0, <<>>))

(***************************************************************************)
(* unpack_archive: the branch taken for a name and the first bytes         *)
(***************************************************************************)
\* a dispatcher that trusts the .zip extension and ignores the magic bytes
ClassifyBySuffix(n, magic_bytes) ==
    LET suffix == Lower(Suffix(n))
        nm     == Lower(n)
    IN  IF suffix = DotZip \/ EndsWith(nm, DotZip) THEN "Zip"
        ELSE IF suffix = DotGz /\ (EndsWith(nm, DotTarGz) \/ EndsWith(nm, DotTgz))
            THEN "GzipTar"
        ELSE IF suffix = DotDmg THEN "DiskImage"
        ELSE IF suffix = DotExe THEN "PEExecutable"
        ELSE IF EndsWith(nm, DotAppimage) THEN "AppImageCandidate"
        ELSE "Unknown"

\* a dispatcher whose last branch hands the file to the installer chain
ClassifyElseInstaller(n, magic_bytes) ==
    LET suffix == Lower(Suffix(n))
        nm     == Lower(n)
        is_pe  == Take(magic_bytes, 2) = MagicMZ
        is_zip == Take(magic_bytes, 2) = MagicPK
    IN  IF (suffix = DotZip \/ EndsWith(nm, DotZip)) /\ is_zip THEN "Zip"
        ELSE IF (suffix = DotZip \/ EndsWith(nm, DotZip)) /\ is_pe
            THEN "PEExecutable"
        ELSE IF suffix = DotGz /\ (EndsWith(nm, DotTarGz) \/ EndsWith(nm, DotTgz))
            THEN "GzipTar"
        ELSE IF suffix = DotDmg THEN "DiskImage"
        ELSE IF EndsWith(nm, DotAppimage) THEN "AppImageCandidate"
        ELSE "PEExecutable"

\* a dispatcher that hands a disk image to the installer chain
ClassifyDmgAsInstaller(n, magic_bytes) ==
    LET suffix == Lower(Suffix(n))
        nm     == Lower(n)
        is_pe  == Take(magic_bytes, 2) = MagicMZ
        is_zip == Take(magic_bytes, 2) = MagicPK
    IN  IF (suffix = DotZip \/ EndsWith(nm, DotZip)) /\ is_zip THEN "Zip"
        ELSE IF (suffix = DotZip \/ EndsWith(nm, DotZip)) /\ is_pe
            THEN "PEExecutable"
        ELSE IF suffix = DotGz /\ (EndsWith(nm, DotTarGz) \/ EndsWith(nm, DotTgz))
            THEN "GzipTar"
        ELSE IF suffix = DotDmg \/ suffix = DotExe THEN "PEExecutable"
        ELSE IF EndsWith(nm, DotAppimage) THEN "AppImageCandidate"
        ELSE "Unknown"

\* the if/elif chain of unpack_archive
Classify(n, magic_bytes) ==
    LET suffix == Lower(Suffix(n))
        nm     == Lower(n)
        is_pe  == Take(magic_bytes, 2) = MagicMZ
        is_zip == Take(magic_bytes, 2) = MagicPK
    IN  IF (suffix = DotZip \/ EndsWith(nm, DotZip)) /\ is_zip THEN "Zip"
        ELSE IF (suffix = DotZip \/ EndsWith(nm, DotZip)) /\ is_pe
            THEN "PEExecutable"
        ELSE IF suffix = DotGz /\ (EndsWith(nm, DotTarGz) \/ EndsWith(nm, DotTgz))
            THEN "GzipTar"
        ELSE IF suffix = DotDmg THEN "DiskImage"
        ELSE IF suffix = DotExe THEN "PEExecutable"
        ELSE IF EndsWith(nm, DotAppimage) THEN "AppImageCandidate"
        ELSE "Unknown"

(***************************************************************************)
(* Inputs                                                                  *)
(***************************************************************************)
Names ==
    { <<"a", ".", "z", "i", "p">>,
      <<"A", ".", "Z", "I", "P">>,
      <<"a", ".", "t", "a", "r", ".", "g", "z">>,
      <<"a", ".", "t", "g", "z">>,
      <<"a", ".", "d", "m", "g">>,
      <<"a", ".", "e", "x", "e">>,
      <<"a", ".", "A", "p", "p", "I", "m", "a", "g", "e">>,
      <<"f", "o", "o", ".", "x", "y", "z">> }

Headers == {MagicPK, MagicMZ, <<"E", "L">>}

\* names for the dispatch alone: each rule's suffix in several letter cases,
\* as a bare dot-name, stacked on another rule's suffix, and near misses
ClassifyNames ==
    Names \cup
    { <<".", "z", "i", "p">>,
      <<"a", ".", "Z", "i", "p">>,
      <<"a", ".", "e", "x", "e", ".", "z", "i", "p">>,
      <<"a", ".", "z", "i", "p", ".", "e", "x", "e">>,
      <<"a", ".", "z", "i", "p", ".">>,
      <<"z", "i", "p">>,
      <<"A", ".", "T", "A", "R", ".", "G", "Z">>,
      <<"A", ".", "T", "G", "Z">>,
      <<"a", ".", "g", "z">>,
      <<"a", ".", "t", "g", "z", ".", "g", "z">>,
      <<".", "t", "a", "r", ".", "g", "z">>,
      <<"a", ".", "D", "M", "G">>,
      <<".", "d", "m", "g">>,
      <<"a", ".", "d", "m", "g", ".", "z", "i", "p">>,
      <<"a", ".", "E", "X", "E">>,
      <<".", "e", "x", "e">>,
      <<"a", ".", "a", "p", "p", "i", "m", "a", "g", "e">>,
      <<"a", ".", "A", "P", "P", "I", "M", "A", "G", "E">>,
      <<".", "a", "p", "p", "i", "m", "a", "g", "e">>,
      <<"a", ".", "a", "p", "p", "i", "m", "a", "g", "e", ".", "d", "m", "g">> }

\* file contents for the dispatch alone: empty, shorter than the magic,
\* longer than the 4 bytes read, and mixtures of the two magics
ClassifyContents ==
    { <<>>,
      <<"P">>,
      MagicPK,
      MagicPK \o <<"x", "y", "z">>,
      MagicMZ,
      MagicMZ \o <<"x", "y", "z">>,
      <<"K", "P">>,
      <<"P", "Z">>,
      <<"x">> \o MagicPK,
      <<"E", "L", "F">> }

Chunks == {squashfs_magic, <<"x">>, <<"h", "s">>}

ScanChunks == {squashfs_magic, <<"x">>, <<"h", "s">>, <<"q", "s">>}

\* concatenations of at most n chunks
RECURSIVE Bodies(_, _)
Bodies(cs, n) ==
    IF n = 0 THEN {<<>>}
    ELSE LET shorter == Bodies(cs, n - 1)
         IN  shorter \cup {b \o c : b \in shorter, c \in cs}

Datas == {<<>>} \cup {h \o b : h \in Headers, b \in Bodies(Chunks, MaxChunks)}

ScanBuffers == Bodies(ScanChunks, MaxScanChunks)

ToolKeys == {"unsquashfs", "7z", "innoextract"}

\* the executables ensure_extraction_tools looks for
Commands == {"unsquashfs", "7z", "7za", "7zz", "innoextract"}

\* the names the 7z tool goes by, in the order they are looked up
SevenZipCommands == <<"7z", "7za", "7zz">>

(***************************************************************************)
(* ensure_extraction_tools                                                 *)
(***************************************************************************)
\* shutil.which(cmd): the path found, or None
Which(cmd, path) == IF cmd \in path THEN cmd ELSE "None"

\* a lookup loop without the break: the last name found stays bound
RECURSIVE LastFound(_, _)
LastFound(cmds, path) ==
    IF cmds = <<>> THEN "None"
    ELSE LET rest == LastFound(Tail(cmds), path)
         IN  IF rest # "None" THEN rest ELSE Which(Head(cmds), path)

\* for cmd in ["7z", "7za", "7zz"]: ... if tool_path: ...; break
RECURSIVE FirstFound(_, _)
FirstFound(cmds, path) ==
    IF cmds = <<>> THEN "None"
    ELSE IF Which(Head(cmds), path) # "None" THEN Which(Head(cmds), path)
    ELSE FirstFound(Tail(cmds), path)

\* tools = {} before any lookup
EmptyDict == [k \in {} |-> "None"]

\* the dict ensure_extraction_tools returns for a search path
EnsureExtractionTools(path) ==
    LET found == [k \in ToolKeys |->
                    IF k = "7z" THEN FirstFound(SevenZipCommands, path)
                    ELSE Which(k, path)]
    IN  [k \in {t \in ToolKeys : found[t] # "None"} |-> found[k]]

\* main has called ensure_extraction_tools on this search path
RegistryFor(path) ==
    /\ onPath = path
    /\ registry = EnsureExtractionTools(path)
    /\ tools = DOMAIN registry

\* extract_dir before the step: absent, empty, or holding earlier content
Prior == <<"prior", -1>>
Dest0s == { [exists |-> FALSE, files |-> {}],
            [exists |-> TRUE,  files |-> {}],
            [exists |-> TRUE,  files |-> {Prior}] }

AppImageName == <<"a", ".", "A", "p", "p", "I", "m", "a", "g", "e">>

(***************************************************************************)
(* Initial states                                                          *)
(***************************************************************************)
\* the .version file: absent; cut short in the middle of write_text; or the
\* JSON mark_downloaded writes, of which only the "unpacked" field is read
NoVersionFile == [exists |-> FALSE, parses |-> FALSE, unpacked |-> "False"]

TornVersionFile == [exists |-> TRUE, parses |-> FALSE, unpacked |-> "False"]

VersionRecord(unpacked) == [exists |-> TRUE, parses |-> TRUE, unpacked |-> unpacked]

\* the first run over the download directory
RunsOff ==
    /\ skipped = FALSE
    /\ runLog = <<>>

\* no batch loop is running
BatchOff ==
    /\ bProd = 0
    /\ bStage = "off"
    /\ bPlat = 0
    /\ bQueue = <<>>
    /\ bHandled = {}
    /\ bAborted = {}
    /\ bClosed = {}

Idle ==
    /\ srcExists = FALSE
    /\ srcData = <<>>
    /\ srcExec = FALSE
    /\ tempExists = FALSE
    /\ tempData = <<>>
    /\ destExists = dest0.exists
    /\ destFiles = dest0.files
    /\ class = "none"
    /\ offsets = <<>>
    /\ pending = <<>>
    /\ log = <<>>
    /\ result = "none"
    /\ raisedAt = "none"
    /\ versionFile = NoVersionFile
    /\ RunsOff
    /\ BatchOff

Init ==
    /\ name \in Names
    /\ data \in Datas
    /\ \E path \in SUBSET ToolKeys : RegistryFor(path)
    /\ dest0 \in Dest0s
    /\ pc = "start"
    /\ Idle

\* unpack_archive called on its own: the archive may be missing, the
\* caller has made extract_dir
InitCall ==
    /\ name \in Names
    /\ data \in Datas
    /\ \E path \in SUBSET ToolKeys : RegistryFor(path)
    /\ dest0 \in {d \in Dest0s : d.exists}
    /\ pc = "unpack"
    /\ srcExists \in BOOLEAN
    /\ srcData = (IF srcExists THEN data ELSE <<>>)
    /\ srcExec = FALSE
    /\ tempExists = FALSE
    /\ tempData = <<>>
    /\ destExists = dest0.exists
    /\ destFiles = dest0.files
    /\ class = "none"
    /\ offsets = <<>>
    /\ pending = <<>>
    /\ log = <<>>
    /\ result = "none"
    /\ raisedAt = "none"
    /\ versionFile = NoVersionFile
    /\ RunsOff
    /\ BatchOff

\* main has built the downloaders and enters its loop; no file is in hand
InitBatch ==
    /\ name = AppImageName
    /\ data = <<>>
    /\ \E path \in SUBSET ToolKeys : RegistryFor(path)
    /\ dest0 = [exists |-> FALSE, files |-> {}]
    /\ pc = "batch"
    /\ srcExists = FALSE
    /\ srcData = <<>>
    /\ srcExec = FALSE
    /\ tempExists = FALSE
    /\ tempData = <<>>
    /\ destExists = FALSE
    /\ destFiles = {}
    /\ class = "none"
    /\ offsets = <<>>
    /\ pending = <<>>
    /\ log = <<>>
    /\ result = "none"
    /\ raisedAt = "none"
    /\ versionFile = NoVersionFile
    /\ RunsOff
    /\ bProd = 1
    /\ bStage = "version"
    /\ bPlat = 0
    /\ bQueue = <<>>
    /\ bHandled = {}
    /\ bAborted = {}
    /\ bClosed = {}

\* unpack_archive with a readable file in hand, up to the branch it takes
InitClassify ==
    /\ name \in ClassifyNames
    /\ data \in ClassifyContents
    /\ RegistryFor({})
    /\ dest0 = [exists |-> TRUE, files |-> {}]
    /\ pc = "classify"
    /\ srcExists = TRUE
    /\ srcData = data
    /\ srcExec = FALSE
    /\ tempExists = FALSE
    /\ tempData = <<>>
    /\ destExists = TRUE
    /\ destFiles = {}
    /\ class = "none"
    /\ offsets = <<>>
    /\ pending = <<>>
    /\ log = <<>>
    /\ result = "none"
    /\ raisedAt = "none"
    /\ versionFile = NoVersionFile
    /\ RunsOff
    /\ BatchOff

\* main before ensure_extraction_tools, with an installer or an AppImage
\* that unpack_archive will be called on once the registry is built
InitTools ==
    /\ name \in {<<"a", ".", "e", "x", "e">>, AppImageName}
    /\ data \in Datas
    /\ onPath \in SUBSET Commands
    /\ registry = EmptyDict
    /\ tools = {}
    /\ dest0 = [exists |-> TRUE, files |-> {}]
    /\ pc = "main"
    /\ srcExists = TRUE
    /\ srcData = data
    /\ srcExec = FALSE
    /\ tempExists = FALSE
    /\ tempData = <<>>
    /\ destExists = TRUE
    /\ destFiles = {}
    /\ class = "none"
    /\ offsets = <<>>
    /\ pending = <<>>
    /\ log = <<>>
    /\ result = "none"
    /\ raisedAt = "none"
    /\ versionFile = NoVersionFile
    /\ RunsOff
    /\ BatchOff

\* the first of several runs for one (product, version, os, arch): nothing
\* on disk yet; the download is a .zip that is a ZIP or is something else
InitRuns ==
    /\ name = <<"a", ".", "z", "i", "p">>
    /\ data \in {MagicPK \o <<"x">>, <<"E", "L", "x">>}
    /\ RegistryFor({})
    /\ dest0 = [exists |-> FALSE, files |-> {}]
    /\ pc = "check"
    /\ Idle

\* the scan alone, on a buffer
InitScan ==
    /\ name = AppImageName
    /\ data \in ScanBuffers
    /\ RegistryFor({"unsquashfs"})
    /\ dest0 = [exists |-> TRUE, files |-> {}]
    /\ pc = "scan"
    /\ Idle

(***************************************************************************)
(* Helpers of the actions                                                  *)
(***************************************************************************)
\* one backend invocation: which backend, on which offset (-1: none), what it
\* reported, and whether it put entries under extract_dir
Invocation(b, off, ok, wrote) == [b |-> b, off |-> off, ok |-> ok, wrote |-> wrote]

\* entries under extract_dir after a backend ran
Written(files, b, off, wrote) == IF wrote THEN files \cup {<<b, off>>} ELSE files

\* unpack_archive returns v
Return(v) ==
    /\ result' = v
    /\ pc' = "returned"

Bool(b) == IF b THEN "True" ELSE "False"

\* outcomes of subprocess.run on an external tool: the launch may raise; the
\* tool exits with zero or not; either way it may have written entries
ToolOutcomes ==
    { [launched |-> FALSE, rc0 |-> FALSE, wrote |-> FALSE] } \cup
    { [launched |-> TRUE, rc0 |-> r, wrote |-> w] : r \in BOOLEAN, w \in BOOLEAN }

\* outcomes of a library reader that extracts everything or raises partway
ReaderOutcomes == { [raised |-> r, wrote |-> w] : r \in BOOLEAN, w \in BOOLEAN }

\* outcomes of the libarchive entry loop: it raises (after any number of
\* entries), or ends having counted zero or some entries; entries that are
\* neither directory, file nor hard link are counted but write nothing.
\* file_reader raises when the path does not exist.
LibarchiveOutcomes(exists) ==
    { [raised |-> TRUE, counted |-> FALSE, wrote |-> FALSE] } \cup
    IF exists
    THEN { [raised |-> TRUE,  counted |-> TRUE,  wrote |-> TRUE],
           [raised |-> FALSE, counted |-> FALSE, wrote |-> FALSE],
           [raised |-> FALSE, counted |-> TRUE,  wrote |-> FALSE],
           [raised |-> FALSE, counted |-> TRUE,  wrote |-> TRUE] }
    ELSE {}

(***************************************************************************)
(* download_product: download one file, make extract_dir                   *)
(***************************************************************************)
DownloadFile ==
    /\ UNCHANGED <<batchVars, toolVars, runVars>>
    /\ pc = "start"
    /\ \E ok \in BOOLEAN :
         IF ok
         THEN /\ srcExists' = TRUE
              /\ srcData' = data
              /\ srcExec' = FALSE
              /\ destExists' = TRUE          \* extract_dir.mkdir(exist_ok=True)
              /\ pc' = "unpack"
              /\ UNCHANGED raisedAt
         ELSE /\ raisedAt' = "download"
              /\ pc' = "done"
              /\ UNCHANGED <<srcExists, srcData, srcExec, destExists>>
    /\ UNCHANGED <<name, data, tools, dest0, tempExists, tempData, destFiles,
                   class, offsets, pending, log, result, versionFile>>

(***************************************************************************)
(* unpack_archive: existence check, magic read, dispatch                   *)
(***************************************************************************)
\* a dispatcher that leaves the mode bits alone
ChmodSkipped(exec) == exec

\* archive_path.chmod(0o755)
Chmod755(exec) == TRUE

\* a dispatcher whose handler lets the exception through
CaughtEscapes(e) == e

\* except Exception as e: ... return False
Caught(e) == "False"

\* a reader whose failure goes unnoticed
ReaderResultAlwaysTrue(raised) == "True"

\* extractall(...); return True inside the try of unpack_archive
ReaderResult(raised) == IF raised THEN Caught("Exception") ELSE "True"

UnpackArchive ==
    /\ UNCHANGED <<batchVars, toolVars, runVars>>
    /\ pc = "unpack"
    /\ IF ~srcExists
       THEN /\ Return("AssertionError")
            /\ UNCHANGED <<class, srcExec, raisedAt>>
       ELSE \E readOk \in BOOLEAN, chmodOk \in BOOLEAN :
              IF ~readOk
              THEN /\ chmodOk
                   /\ raisedAt' = "read"
                   /\ Return(Caught("OSError"))
                   /\ UNCHANGED <<class, srcExec>>
              ELSE LET c == Classify(name, Take(srcData, 4))
                   IN  /\ class' = c
                       /\ CASE c = "Zip" ->
                                 /\ chmodOk
                                 /\ pc' = "zip"
                                 /\ UNCHANGED <<result, srcExec, raisedAt>>
                            [] c = "GzipTar" ->
                                 /\ chmodOk
                                 /\ pc' = "tar"
                                 /\ UNCHANGED <<result, srcExec, raisedAt>>
                            [] c = "DiskImage" ->
                                 /\ chmodOk
                                 /\ Return("True")
                                 /\ UNCHANGED <<srcExec, raisedAt>>
                            [] c = "PEExecutable" ->
                                 /\ chmodOk
                                 /\ pc' = "nsis_innoextract"
                                 /\ UNCHANGED <<result, srcExec, raisedAt>>
                            [] c = "AppImageCandidate" ->
                                 IF chmodOk
                                 THEN /\ srcExec' = Chmod755(srcExec)
                                      /\ pc' = "appimage"
                                      /\ UNCHANGED <<result, raisedAt>>
                                 ELSE /\ raisedAt' = "chmod"
                                      /\ Return(Caught("OSError"))
                                      /\ UNCHANGED srcExec
                            [] OTHER ->
                                 /\ chmodOk
                                 /\ Return("False")
                                 /\ UNCHANGED <<srcExec, raisedAt>>
    /\ UNCHANGED <<name, data, tools, dest0, srcExists, srcData, tempExists,
                   tempData, destExists, destFiles, offsets, pending, log,
                   versionFile>>

\* zipfile.ZipFile(...).extractall(extract_dir)
UnpackZip ==
    /\ UNCHANGED <<batchVars, toolVars, runVars>>
    /\ pc = "zip"
    /\ \E o \in ReaderOutcomes :
         /\ destFiles' = Written(destFiles, "zip", -1, o.wrote)
         /\ log' = Append(log, Invocation("zip", -1, ~o.raised, o.wrote))
         /\ Return(ReaderResult(o.raised))
    /\ UNCHANGED <<name, data, tools, dest0, srcExists, srcData, srcExec,
                   tempExists, tempData, destExists, class, offsets, pending,
                   raisedAt, versionFile>>

\* tarfile.open(...).extractall(extract_dir, filter='data')
UnpackTarGz ==
    /\ UNCHANGED <<batchVars, toolVars, runVars>>
    /\ pc = "tar"
    /\ \E o \in ReaderOutcomes :
         /\ destFiles' = Written(destFiles, "tar", -1, o.wrote)
         /\ log' = Append(log, Invocation("tar", -1, ~o.raised, o.wrote))
         /\ Return(ReaderResult(o.raised))
    /\ UNCHANGED <<name, data, tools, dest0, srcExists, srcData, srcExec,
                   tempExists, tempData, destExists, class, offsets, pending,
                   raisedAt, versionFile>>

(***************************************************************************)
(* extract_nsis_installer: innoextract, 7z, py7zr, libarchive              *)
(***************************************************************************)
\* extract_with_innoextract: exit status zero and rglob("*") non-empty
InnoextractOk(rc0, files) == rc0 /\ files # {}

\* extract_exe_with_7z: exit status zero and rglob("*") non-empty
SevenZipOk(rc0, files) == rc0 /\ files # {}

\* a chain that goes on to 7z whatever innoextract reported
AfterInnoextractAlways(ok) == "nsis_7z"

\* if extract_with_innoextract(...): return True
AfterInnoextract(ok) == IF ok THEN "returned" ELSE "nsis_7z"

\* if extract_exe_with_7z(...): return True
After7z(ok) == IF ok THEN "returned" ELSE "nsis_py7zr"

\* py7zr: return True unless it raised
AfterPy7zr(ok) == IF ok THEN "returned" ELSE "nsis_libarchive"

NsisInnoextract ==
    /\ UNCHANGED <<batchVars, toolVars, runVars>>
    /\ pc = "nsis_innoextract"
    /\ IF "innoextract" \notin tools
       THEN /\ pc' = "nsis_7z"
            /\ UNCHANGED <<destFiles, log, result, raisedAt>>
       ELSE \E o \in ToolOutcomes :
              LET files == Written(destFiles, "innoextract", -1, o.wrote)
                  ok    == o.launched /\ InnoextractOk(o.rc0, files)
              IN  /\ destFiles' = files
                  /\ log' = Append(log, Invocation("innoextract", -1, ok, o.wrote))
                  /\ raisedAt' = IF o.launched THEN raisedAt ELSE "launch"
                  /\ result' = IF ok THEN "True" ELSE result
                  /\ pc' = AfterInnoextract(ok)
    /\ UNCHANGED <<name, data, tools, dest0, srcExists, srcData, srcExec,
                   tempExists, tempData, destExists, class, offsets, pending,
                   versionFile>>

Nsis7z ==
    /\ UNCHANGED <<batchVars, toolVars, runVars>>
    /\ pc = "nsis_7z"
    /\ IF "7z" \notin tools
       THEN /\ pc' = "nsis_py7zr"
            /\ UNCHANGED <<destFiles, log, result, raisedAt>>
       ELSE \E o \in ToolOutcomes :
              LET files == Written(destFiles, "7z", -1, o.wrote)
                  ok    == o.launched /\ SevenZipOk(o.rc0, files)
              IN  /\ destFiles' = files
                  /\ log' = Append(log, Invocation("7z", -1, ok, o.wrote))
                  /\ raisedAt' = IF o.launched THEN raisedAt ELSE "launch"
                  /\ result' = IF ok THEN "True" ELSE result
                  /\ pc' = After7z(ok)
    /\ UNCHANGED <<name, data, tools, dest0, srcExists, srcData, srcExec,
                   tempExists, tempData, destExists, class, offsets, pending,
                   versionFile>>

\* py7zr.SevenZipFile(exe_path).extractall(path=extract_dir)
NsisPy7zr ==
    /\ UNCHANGED <<batchVars, toolVars, runVars>>
    /\ pc = "nsis_py7zr"
    /\ \E o \in ReaderOutcomes :
         LET ok == ~o.raised
         IN  /\ destFiles' = Written(destFiles, "py7zr", -1, o.wrote)
             /\ log' = Append(log, Invocation("py7zr", -1, ok, o.wrote))
             /\ result' = IF ok THEN "True" ELSE result
             /\ pc' = AfterPy7zr(ok)
    /\ UNCHANGED <<name, data, tools, dest0, srcExists, srcData, srcExec,
                   tempExists, tempData, destExists, class, offsets, pending,
                   raisedAt, versionFile>>

\* libarchive.file_reader(exe_path): entry_count > 0
NsisLibarchive ==
    /\ UNCHANGED <<batchVars, toolVars, runVars>>
    /\ pc = "nsis_libarchive"
    /\ \E o \in LibarchiveOutcomes(srcExists) :
         LET ok == ~o.raised /\ o.counted
         IN  /\ destFiles' = Written(destFiles, "libarchive", -1, o.wrote)
             /\ log' = Append(log, Invocation("libarchive", -1, ok, o.wrote))
             /\ Return(Bool(ok))
    /\ UNCHANGED <<name, data, tools, dest0, srcExists, srcData, srcExec,
                   tempExists, tempData, destExists, class, offsets, pending,
                   raisedAt, versionFile>>

(***************************************************************************)
(* extract_appimage and extract_appimage_with_unsquashfs                   *)
(***************************************************************************)
\* a temp path that is the archive's own path
TempPathIsSource(n) == n

\* appimage_path.stem
Stem(n) == Take(n, Len(n) - Len(Suffix(n)))

\* temp_squashfs: f"{appimage_path.stem}.squashfs" next to the archive
TempPath(n) == Stem(n) \o <<".", "s", "q", "u", "a", "s", "h", "f", "s">>

\* open(temp_squashfs, 'wb') / temp_squashfs.unlink() act on the archive
\* itself exactly when the two paths name the same file
SourceFollowsTemp ==
    IF TempPath(name) = name /\ <<tempExists, tempData>>' # <<tempExists, tempData>>
    THEN /\ srcExists' = tempExists'
         /\ srcData' = tempData'
    ELSE UNCHANGED <<srcExists, srcData>>

\* an extraction into whatever extract_dir already holds
KeptAsIs(files) == files

\* shutil.rmtree(extract_dir); extract_dir.mkdir(parents=True)
Recreated(files) == {}

\* entry of extract_appimage.  With unsquashfs registered: the scan of
\* extract_appimage_with_unsquashfs.  Otherwise: first offset, carve the
\* image into temp_squashfs, remove and recreate extract_dir.
ExtractAppimage ==
    /\ UNCHANGED <<batchVars, toolVars, runVars>>
    /\ pc = "appimage"
    /\ IF "unsquashfs" \in tools
       THEN LET found == SquashfsOffsets(srcData)
            IN  /\ offsets' = found
                /\ pending' = found
                /\ IF found = <<>>
                   THEN Return("False")
                   ELSE /\ pc' = "unsquashfs_trial"
                        /\ UNCHANGED result
                /\ UNCHANGED <<tempExists, tempData, destExists, destFiles,
                               raisedAt>>
       ELSE LET offset == Find(srcData, 0)
            IN  IF offset = -1
                THEN /\ Return("False")
                     /\ UNCHANGED <<offsets, pending, tempExists, tempData,
                                    destExists, destFiles, raisedAt>>
                ELSE /\ offsets' = <<offset>>
                     /\ UNCHANGED pending
                     /\ tempExists' = TRUE
                     /\ \E fault \in {"none", "write", "rmtree", "mkdir"} :
                          CASE fault = "write" ->
                                 \* open(temp, 'wb') made the file, f.write raised
                                 /\ tempData' = <<>>
                                 /\ raisedAt' = "write"
                                 /\ Return("False")
                                 /\ UNCHANGED <<destExists, destFiles>>
                            [] fault = "rmtree" ->
                                 \* shutil.rmtree raised before removing anything
                                 /\ destExists
                                 /\ tempData' = From(srcData, offset)
                                 /\ raisedAt' = "rmtree"
                                 /\ Return("False")
                                 /\ UNCHANGED <<destExists, destFiles>>
                            [] fault = "mkdir" ->
                                 \* the tree is gone, extract_dir.mkdir raised
                                 /\ tempData' = From(srcData, offset)
                                 /\ destExists' = FALSE
                                 /\ destFiles' = {}
                                 /\ raisedAt' = "mkdir"
                                 /\ Return("False")
                            [] OTHER ->
                                 /\ tempData' = From(srcData, offset)
                                 /\ destExists' = TRUE
                                 /\ destFiles' = Recreated(destFiles)
                                 /\ pc' = "squashfs_image"
                                 /\ UNCHANGED <<result, raisedAt>>
    /\ UNCHANGED <<name, data, tools, dest0, srcExec, class, log, versionFile>>
    /\ SourceFollowsTemp

\* one pass of the for-loop over offsets, and the code after the loop when
\* this was the last offset
UnsquashfsTrial ==
    /\ UNCHANGED <<batchVars, toolVars, runVars>>
    /\ pc = "unsquashfs_trial"
    /\ pending # <<>>
    /\ LET offset == Head(pending)
       IN  \E writeOk \in BOOLEAN, o \in ToolOutcomes :
             IF ~writeOk
             THEN /\ o = [launched |-> FALSE, rc0 |-> FALSE, wrote |-> FALSE]
                  /\ tempExists' = TRUE
                  /\ tempData' = <<>>
                  /\ raisedAt' = "write"
                  /\ Return("False")
                  /\ UNCHANGED <<destFiles, log, pending>>
             ELSE /\ destFiles' = Written(destFiles, "unsquashfs", offset, o.wrote)
                  /\ log' = Append(log, Invocation("unsquashfs", offset,
                                                   o.launched /\ o.rc0, o.wrote))
                  /\ tempData' = From(srcData, offset)
                  /\ IF ~o.launched
                     THEN /\ tempExists' = TRUE
                          /\ raisedAt' = "launch"
                          /\ Return("False")
                          /\ UNCHANGED pending
                     ELSE IF o.rc0
                     THEN /\ tempExists' = FALSE
                          /\ Return("True")
                          /\ UNCHANGED <<pending, raisedAt>>
                     ELSE /\ pending' = Tail(pending)
                          /\ UNCHANGED raisedAt
                          /\ IF Tail(pending) = <<>>
                             THEN /\ tempExists' = FALSE
                                  /\ Return("False")
                             ELSE /\ tempExists' = TRUE
                                  /\ UNCHANGED <<pc, result>>
    /\ UNCHANGED <<name, data, tools, dest0, srcExec, destExists, class,
                   offsets, versionFile>>
    /\ SourceFollowsTemp

\* SquashFsImage.from_file(temp_squashfs) and extract_squashfs_dir; both
\* branches unlink temp_squashfs
SquashfsImage ==
    /\ UNCHANGED <<batchVars, toolVars, runVars>>
    /\ pc = "squashfs_image"
    /\ \E o \in ReaderOutcomes :
         LET ok == ~o.raised
         IN  /\ destFiles' = Written(destFiles, "pysquashfs", offsets[1], o.wrote)
             /\ log' = Append(log, Invocation("pysquashfs", offsets[1], ok, o.wrote))
             /\ tempExists' = FALSE
             /\ IF ok
                THEN Return("True")
                ELSE /\ pc' = "squashfs_libarchive"
                     /\ UNCHANGED result
    /\ UNCHANGED <<name, data, tools, dest0, srcExec, tempData, destExists,
                   class, offsets, pending, raisedAt, versionFile>>
    /\ SourceFollowsTemp

\* libarchive.file_reader(temp_squashfs) inside the except branch; an
\* exception here is the keep-the-binary case and returns True
SquashfsLibarchive ==
    /\ UNCHANGED <<batchVars, toolVars, runVars>>
    /\ pc = "squashfs_libarchive"
    /\ \E o \in LibarchiveOutcomes(tempExists) :
         LET ok == ~o.raised /\ o.counted
         IN  /\ destFiles' = Written(destFiles, "libarchive", offsets[1], o.wrote)
             /\ log' = Append(log, Invocation("libarchive", offsets[1], ok, o.wrote))
             /\ Return(Bool(o.raised \/ o.counted))
    /\ UNCHANGED <<name, data, tools, dest0, srcExists, srcData, srcExec,
                   tempExists, tempData, destExists, class, offsets, pending,
                   raisedAt, versionFile>>

(***************************************************************************)
(* download_product: record the outcome                                    *)
(***************************************************************************)
\* version_info.mark_downloaded(download_url, file_size, unpacked); an
\* exception out of unpack_archive skips it
MarkDownloaded ==
    /\ UNCHANGED <<batchVars, toolVars, runVars>>
    /\ pc = "returned"
    /\ versionFile' = IF result = "AssertionError" THEN versionFile
                      ELSE VersionRecord(result)
    /\ pc' = "done"
    /\ UNCHANGED <<name, data, tools, dest0, srcExists, srcData, srcExec,
                   tempExists, tempData, destExists, destFiles, class, offsets,
                   pending, log, result, raisedAt>>

\* the scan of extract_appimage_with_unsquashfs on its own
ScanBuffer ==
    /\ UNCHANGED <<batchVars, toolVars, runVars>>
    /\ pc = "scan"
    /\ offsets' = SquashfsOffsets(data)
    /\ pc' = "scanned"
    /\ UNCHANGED <<name, data, tools, dest0, srcExists, srcData, srcExec,
                   tempExists, tempData, destExists, destFiles, class, pending,
                   log, result, raisedAt, versionFile>>

(***************************************************************************)
(* Runs over the same download directory                                   *)
(***************************************************************************)
\* a check that takes any version file as proof of completion
IsDownloadedIfExists(vf) == vf.exists

\* VersionInfo.is_downloaded
IsDownloaded(vf) ==
    IF ~vf.exists THEN FALSE
    ELSE IF ~vf.parses THEN FALSE
    ELSE vf.unpacked = "True"

\* if version_info.is_downloaded(): ... continue; otherwise the combination
\* goes on to download and unpack
CheckDownloaded ==
    /\ UNCHANGED <<batchVars, toolVars>>
    /\ pc = "check"
    /\ skipped' = IsDownloaded(versionFile)
    /\ pc' = IF IsDownloaded(versionFile) THEN "done" ELSE "start"
    /\ UNCHANGED <<name, data, tools, dest0, srcExists, srcData, srcExec,
                   tempExists, tempData, destExists, destFiles, class, offsets,
                   pending, log, result, raisedAt, versionFile, runLog>>

\* the process is stopped from outside anywhere between the check and the
\* end of mark_downloaded; stopped inside write_text, the version file may
\* be left cut short
Interrupt ==
    /\ UNCHANGED <<batchVars, toolVars, runVars>>
    /\ pc \in {"start", "unpack", "zip", "returned"}
    /\ raisedAt' = "interrupt"
    /\ pc' = "done"
    /\ \E torn \in BOOLEAN :
         versionFile' = IF torn /\ pc = "returned" THEN TornVersionFile
                        ELSE versionFile
    /\ UNCHANGED <<name, data, tools, dest0, srcExists, srcData, srcExec,
                   tempExists, tempData, destExists, destFiles, class, offsets,
                   pending, log, result>>

\* what the run now ending did with the combination
ThisRun == [skipped |-> skipped, result |-> result,
            interrupted |-> raisedAt = "interrupt"]

\* the program is started again: a new process, the same disk
NextRun ==
    /\ UNCHANGED <<batchVars, toolVars>>
    /\ pc = "done"
    /\ Len(runLog) + 1 < MaxRuns
    /\ runLog' = Append(runLog, ThisRun)
    /\ skipped' = FALSE
    /\ dest0' = [exists |-> destExists, files |-> destFiles]
    /\ pc' = "check"
    /\ class' = "none"
    /\ offsets' = <<>>
    /\ pending' = <<>>
    /\ log' = <<>>
    /\ result' = "none"
    /\ raisedAt' = "none"
    /\ UNCHANGED <<name, data, tools, srcExists, srcData, srcExec, tempExists,
                   tempData, destExists, destFiles, versionFile>>

\* tools = await ensure_extraction_tools() in main
EnsureTools ==
    /\ UNCHANGED <<batchVars, runVars>>
    /\ pc = "main"
    /\ registry' = EnsureExtractionTools(onPath)
    /\ tools' = DOMAIN registry'
    /\ pc' = "unpack"
    /\ UNCHANGED <<name, data, dest0, srcExists, srcData, srcExec, tempExists,
                   tempData, destExists, destFiles, class, offsets, pending,
                   log, result, raisedAt, versionFile, onPath>>

\* suffix, name, magic_bytes = f.read(4), is_pe, is_zip and the if/elif
\* chain, up to the branch chosen
Sniff ==
    /\ UNCHANGED <<batchVars, toolVars, runVars>>
    /\ pc = "classify"
    /\ class' = Classify(name, Take(srcData, 4))
    /\ pc' = "classified"
    /\ UNCHANGED <<name, data, tools, dest0, srcExists, srcData, srcExec,
                   tempExists, tempData, destExists, destFiles, offsets,
                   pending, log, result, raisedAt, versionFile>>

(***************************************************************************)
(* main and download_product: the loop over downloaders and platforms      *)
(***************************************************************************)
\* main's for-loop moves to the next downloader, or ends
NextDownloader ==
    /\ bProd' = bProd + 1
    /\ bStage' = IF bProd + 1 > MaxProducts THEN "finished" ELSE "version"
    /\ bPlat' = 0
    /\ bQueue' = <<>>

\* an exception leaves download_product: except ... raise, finally close();
\* main prints it and continues with the next downloader
LeaveByException(cause) ==
    /\ bAborted' = bAborted \cup {<<bProd, cause>>}
    /\ bClosed' = bClosed \cup {bProd}
    /\ NextDownloader

\* version = await downloader.get_latest_version()
GetLatestVersion ==
    /\ bStage = "version"
    /\ \E ok \in BOOLEAN :
         IF ok
         THEN /\ bStage' = "collect"
              /\ bPlat' = 1
              /\ bQueue' = <<>>
              /\ UNCHANGED <<bProd, bAborted, bClosed>>
         ELSE LeaveByException("version")
    /\ UNCHANGED bHandled
    /\ UNCHANGED <<fileVars, toolVars, runVars>>

\* one pass of "for platform in platforms": is_downloaded, get_download_url
CollectPlatform ==
    /\ bStage = "collect"
    /\ bPlat <= MaxPlatforms
    /\ \E o \in {"downloaded", "unavailable", "url", "raised"} :
         IF o = "raised"
         THEN /\ LeaveByException("url")
              /\ UNCHANGED bHandled
         ELSE /\ bHandled' = IF o = "url" THEN bHandled
                             ELSE bHandled \cup {<<bProd, bPlat>>}
              /\ bQueue' = IF o = "url" THEN Append(bQueue, bPlat) ELSE bQueue
              /\ bPlat' = bPlat + 1
              /\ bStage' = IF bPlat = MaxPlatforms THEN "download" ELSE "collect"
              /\ UNCHANGED <<bProd, bAborted, bClosed>>
    /\ UNCHANGED <<fileVars, toolVars, runVars>>

\* one pass of "for version_info, download_url, platform in downloads":
\* download_file, unpack_archive, mark_downloaded inside try/except
DownloadAndUnpack ==
    /\ bStage = "download"
    /\ bQueue # <<>>
    /\ \E o \in {"download_raised", "unpack_raised", "False", "True"} :
         /\ bHandled' = bHandled \cup {<<bProd, Head(bQueue)>>}
         /\ bQueue' = Tail(bQueue)
    /\ UNCHANGED <<bProd, bStage, bPlat, bAborted, bClosed>>
    /\ UNCHANGED <<fileVars, toolVars, runVars>>

\* the downloads are done: "complete", finally close(), next downloader
FinishProduct ==
    /\ bStage = "download"
    /\ bQueue = <<>>
    /\ bClosed' = bClosed \cup {bProd}
    /\ NextDownloader
    /\ UNCHANGED <<bHandled, bAborted>>
    /\ UNCHANGED <<fileVars, toolVars, runVars>>

(***************************************************************************)
(* Specifications                                                          *)
(***************************************************************************)
Next ==
    \/ DownloadFile
    \/ UnpackArchive
    \/ UnpackZip
    \/ UnpackTarGz
    \/ NsisInnoextract
    \/ Nsis7z
    \/ NsisPy7zr
    \/ NsisLibarchive
    \/ ExtractAppimage
    \/ UnsquashfsTrial
    \/ SquashfsImage
    \/ SquashfsLibarchive
    \/ MarkDownloaded

Spec == Init /\ [][Next]_vars

NextCall ==
    \/ UnpackArchive
    \/ UnpackZip
    \/ UnpackTarGz
    \/ NsisInnoextract
    \/ Nsis7z
    \/ NsisPy7zr
    \/ NsisLibarchive
    \/ ExtractAppimage
    \/ UnsquashfsTrial
    \/ SquashfsImage
    \/ SquashfsLibarchive

SpecCall == InitCall /\ [][NextCall]_vars

NextBatch ==
    \/ GetLatestVersion
    \/ CollectPlatform
    \/ DownloadAndUnpack
    \/ FinishProduct

SpecBatch == InitBatch /\ [][NextBatch]_vars

NextScan == ScanBuffer

SpecScan == InitScan /\ [][NextScan]_vars

NextTools ==
    \/ EnsureTools
    \/ UnpackArchive
    \/ NsisInnoextract
    \/ Nsis7z
    \/ NsisPy7zr
    \/ NsisLibarchive
    \/ ExtractAppimage
    \/ UnsquashfsTrial
    \/ SquashfsImage
    \/ SquashfsLibarchive

SpecTools == InitTools /\ [][NextTools]_vars

NextRuns ==
    \/ CheckDownloaded
    \/ DownloadFile
    \/ UnpackArchive
    \/ UnpackZip
    \/ MarkDownloaded
    \/ Interrupt
    \/ NextRun

SpecRuns == InitRuns /\ [][NextRuns]_vars

NextClassify == Sniff

SpecClassify == InitClassify /\ [][NextClassify]_vars

(***************************************************************************)
(* Vocabulary of the properties                                            *)
(***************************************************************************)
\* unpack_archive has returned
Returned == pc \in {"returned", "done"} /\ result # "none"

\* 0-based positions where the signature occurs
Occurrences(d) ==
    {i \in 0..(Len(d) - 4) :
        /\ d[i + 1] = "h" /\ d[i + 2] = "s" /\ d[i + 3] = "q" /\ d[i + 4] = "s"}

NsisChain == <<"innoextract", "7z", "py7zr", "libarchive">>

ChainPos(b) == CHOOSE k \in 1..Len(NsisChain) : NsisChain[k] = b

\* a chain entry that needs no tool, or whose tool is registered
Eligible(b) == b \in {"py7zr", "libarchive"} \/ b \in tools

ZipNamed == EndsWith(Lower(name), DotZip)

\* an input none of the dispatcher's rules can match
NoRuleMatches ==
    LET nm == Lower(name)
    IN  /\ ZipNamed => Take(data, 2) \notin {MagicPK, MagicMZ}
        /\ \A e \in {DotGz, DotTgz, DotDmg, DotExe, DotAppimage} : ~EndsWith(nm, e)

(***************************************************************************)
(* C1.  A file named *.zip whose first two bytes are PK is taken as Zip    *)
(* and only the zip reader runs on it; one whose first two bytes are MZ is *)
(* taken as PEExecutable and the installer chain runs, never the zip       *)
(* reader.  (Stated for calls whose 4-byte read succeeded.)                *)
(***************************************************************************)
C1_ZipNameDispatchedByMagic ==
    (ZipNamed /\ class # "none") =>
        /\ Take(srcData, 2) = MagicPK =>
             /\ class = "Zip"
             /\ \A i \in 1..Len(log) : log[i].b = "zip"
             /\ Returned => Len(log) = 1
        /\ Take(srcData, 2) = MagicMZ =>
             /\ class = "PEExecutable"
             /\ \A i \in 1..Len(log) :
                  log[i].b \in {NsisChain[k] : k \in 1..Len(NsisChain)}
             /\ Returned => log # <<>>

C1_Witness ==
    /\ Returned
    /\ ZipNamed
    /\ Take(srcData, 2) = MagicMZ
    /\ class = "PEExecutable"
    /\ log # <<>>

(***************************************************************************)
(* C2.  The offsets the unsquashfs path computes are exactly the positions *)
(* where hsqs occurs, none missing, none twice, from highest to lowest.    *)
(***************************************************************************)
C2_OffsetsExactDescending ==
    pc = "scanned" =>
        /\ {offsets[i] : i \in 1..Len(offsets)} = Occurrences(data)
        /\ Len(offsets) = Cardinality(Occurrences(data))
        /\ \A i \in 1..Len(offsets) : \A j \in 1..Len(offsets) :
             i < j => offsets[i] > offsets[j]

C2_Witness ==
    /\ pc = "scanned"
    /\ Len(offsets) = 3
    /\ offsets[1] > offsets[2] /\ offsets[2] > offsets[3]

(***************************************************************************)
(* C3.  After an AppImage extraction has returned, on whatever exit path,  *)
(* the carved temporary file does not exist.                               *)
(***************************************************************************)
C3_TempRemovedOnEveryExit ==
    (Returned /\ class = "AppImageCandidate") => ~tempExists

(***************************************************************************)
(* C4.  An AppImage with at least one hsqs occurrence, processed without   *)
(* any exception, makes unpack_archive return True whatever the backends   *)
(* report, and the AppImage file is still there.                           *)
(***************************************************************************)
C4_AppImageWithOffsetReturnsTrue ==
    ( /\ Returned
      /\ class = "AppImageCandidate"
      /\ Occurrences(srcData) # {}
      /\ raisedAt = "none" )
    => (result = "True" /\ srcExists)

(***************************************************************************)
(* C5.  unpack_archive returns False for an AppImage on which a backend    *)
(* was tried only after every eligible entry of the chain (unsquashfs if   *)
(* registered, the SquashFS library, libarchive) was tried and failed; in  *)
(* particular a failed unsquashfs is followed by the SquashFS library.     *)
(***************************************************************************)
C5_FalseOnlyAfterWholeAppImageChain ==
    ( /\ Returned
      /\ result = "False"
      /\ class = "AppImageCandidate"
      /\ raisedAt = "none"
      /\ log # <<>> )
    => \A b \in {"pysquashfs", "libarchive"} :
         \E i \in 1..Len(log) : log[i].b = b /\ ~log[i].ok

(***************************************************************************)
(* C6.  On a PEExecutable the backends run in the order innoextract, 7z,   *)
(* py7zr, libarchive, each at most once; an unregistered tool is never run *)
(* and is passed over; a backend runs only when every earlier one was      *)
(* passed over or reported failure; nothing runs after a reported success; *)
(* False is returned only when libarchive, the last one, was reached.      *)
(***************************************************************************)
C6_NsisChainInOrder ==
    class = "PEExecutable" =>
        /\ \A i \in 1..Len(log) :
             /\ log[i].b \in {NsisChain[k] : k \in 1..Len(NsisChain)}
             /\ Eligible(log[i].b)
             /\ i < Len(log) => ~log[i].ok
             /\ \A j \in 1..Len(log) :
                  i < j => ChainPos(log[i].b) < ChainPos(log[j].b)
             /\ \A k \in 1..(ChainPos(log[i].b) - 1) :
                  Eligible(NsisChain[k]) =>
                      \E j \in 1..(i - 1) : log[j].b = NsisChain[k] /\ ~log[j].ok
        /\ Returned =>
             /\ log # <<>>
             /\ result = "True" <=> log[Len(log)].ok
             /\ result = "False" => log[Len(log)].b = "libarchive"

C6_Witness ==
    /\ Returned
    /\ class = "PEExecutable"
    /\ tools = {"7z", "unsquashfs"}
    /\ Len(log) = 3
    /\ log[1].b = "7z" /\ log[2].b = "py7zr" /\ log[3].b = "libarchive"
    /\ log[3].ok

(***************************************************************************)
(* C7.  On a PEExecutable unpack_archive returns True only when the        *)
(* destination directory is non-empty afterwards.                          *)
(***************************************************************************)
C7_NsisTrueImpliesNonEmpty ==
    (Returned /\ class = "PEExecutable" /\ result = "True") => destFiles # {}

(***************************************************************************)
(* C8.  When unpack_archive returns True, what the call put in the         *)
(* destination was all written by the one backend that reported success.   *)
(***************************************************************************)
C8_OnlyTheSuccessfulBackendWrote ==
    (Returned /\ result = "True") =>
        \A f \in destFiles \ {Prior} :
            \E i \in 1..Len(log) : log[i].ok /\ log[i].b = f[1]

(***************************************************************************)
(* C9.  The non-empty-destination check after innoextract or 7z is never   *)
(* satisfied only by entries that this backend did not write.              *)
(***************************************************************************)
C9_NonEmptyCheckMeansThisBackendWrote ==
    \A i \in 1..Len(log) :
        (log[i].b \in {"innoextract", "7z"} /\ log[i].ok) => log[i].wrote

(***************************************************************************)
(* C10.  As claimed: for an input no rule matches, failure is returned, no *)
(* backend is invoked, and over the whole download-then-unpack step the    *)
(* destination directory is neither created nor touched.                   *)
(***************************************************************************)
C10_UnknownStepLeavesDestAsItWas ==
    (Returned /\ NoRuleMatches /\ class = "Unknown") =>
        /\ result = "False"
        /\ log = <<>>
        /\ destExists = dest0.exists
        /\ destFiles = dest0.files

(***************************************************************************)
(* C10, amended.  For an input no rule matches, unpack_archive returns     *)
(* False, invokes no backend, writes no temporary file and changes nothing *)
(* in the destination directory; the directory itself exists from the      *)
(* moment download_product made it, before unpack_archive is called, with  *)
(* the contents it had before the step.                                    *)
(***************************************************************************)
C10_UnknownNoBackendDestMadeByCaller ==
    (NoRuleMatches /\ pc \in {"unpack", "returned", "done"} /\ raisedAt # "download") =>
        /\ log = <<>>
        /\ ~tempExists
        /\ destExists
        /\ destFiles = dest0.files
        /\ class \in {"none", "Unknown"}
        /\ pc # "unpack" => result = "False"

C10_Witness ==
    /\ Returned
    /\ NoRuleMatches
    /\ class = "Unknown"
    /\ result = "False"
    /\ log = <<>>
    /\ ~dest0.exists
    /\ destExists

(***************************************************************************)
(* C11.  When the input path exists, unpack_archive returns True or False  *)
(* whatever is raised inside it; an exception leaves it only when the path *)
(* is missing, and then nothing was read and nothing on disk has changed.  *)
(***************************************************************************)
C11_OnlyMissingInputEscapes ==
    Returned =>
        /\ srcExists => result \in {"True", "False"}
        /\ ~srcExists =>
             /\ result = "AssertionError"
             /\ class = "none"
             /\ raisedAt = "none"
             /\ log = <<>>
             /\ ~srcExec
             /\ ~tempExists
             /\ destExists = dest0.exists
             /\ destFiles = dest0.files

C11_Witness ==
    /\ Returned
    /\ srcExists
    /\ raisedAt = "read"
    /\ result = "False"

C11_WitnessMissing ==
    /\ Returned
    /\ ~srcExists
    /\ result = "AssertionError"

AppImageNamed == EndsWith(Lower(name), DotAppimage)

(***************************************************************************)
(* C12.  An AppImage without any hsqs occurrence makes unpack_archive      *)
(* return False, with no backend tried, whether unsquashfs is registered   *)
(* or not.                                                                 *)
(***************************************************************************)
C12_NoSignatureReturnsFalse ==
    (Returned /\ AppImageNamed /\ Occurrences(srcData) = {}) =>
        (result = "False" /\ log = <<>>)

C12_Witness ==
    /\ Returned
    /\ class = "AppImageCandidate"
    /\ Occurrences(srcData) = {}
    /\ "unsquashfs" \in tools
    /\ raisedAt = "none"
    /\ result = "False"

(***************************************************************************)
(* C13.  On an AppImage the executable bit of the source is set before the *)
(* first extraction attempt: whenever a temporary file exists, a backend   *)
(* has run or extract_appimage has been entered, the source is executable, *)
(* and it is executable after the call whatever the outcome (the call not  *)
(* having stopped at the read or at the chmod itself).                     *)
(***************************************************************************)
C13_ExecutableBeforeAnyAttempt ==
    AppImageNamed =>
        /\ ( \/ tempExists
             \/ log # <<>>
             \/ pc \in {"appimage", "unsquashfs_trial", "squashfs_image",
                        "squashfs_libarchive"} ) => srcExec
        /\ (Returned /\ raisedAt \notin {"read", "chmod"}) => srcExec

C13_Witness ==
    /\ Returned
    /\ class = "AppImageCandidate"
    /\ result = "False"
    /\ log # <<>>
    /\ srcExec

(***************************************************************************)
(* C14.  As claimed: on every AppImage path, once a backend has run, the   *)
(* destination holds nothing of what it held before the call.              *)
(***************************************************************************)
C14_PriorNeverMergedOnAnyPath ==
    (class = "AppImageCandidate" /\ log # <<>>) => Prior \notin destFiles

(***************************************************************************)
(* C14, amended.  On the bundled-library path the destination is removed   *)
(* and recreated empty before the first backend writes into it, so prior   *)
(* contents are never merged; on the unsquashfs path the destination is    *)
(* not cleared and keeps what it held.                                     *)
(***************************************************************************)
C14_LibraryPathRecreatesUnsquashfsKeeps ==
    class = "AppImageCandidate" =>
        /\ pc = "squashfs_image" => (destExists /\ destFiles = {})
        /\ ("unsquashfs" \notin tools /\ log # <<>>) =>
              (destExists /\ Prior \notin destFiles)
        /\ "unsquashfs" \in tools => dest0.files \subseteq destFiles

C14_Witness ==
    /\ class = "AppImageCandidate"
    /\ pc = "squashfs_image"
    /\ Prior \in dest0.files
    /\ destFiles = {}

(***************************************************************************)
(* C15.  With unsquashfs registered and at least one offset found, the     *)
(* offsets are tried from the highest down, each at most once, none after  *)
(* the first zero exit status, and the call returns True exactly when some *)
(* tried offset gave exit status zero.                                     *)
(***************************************************************************)
C15_TrialsDescendingUntilZeroExit ==
    (class = "AppImageCandidate" /\ "unsquashfs" \in tools /\ offsets # <<>>) =>
        /\ \A i \in 1..Len(log) :
             /\ log[i].b = "unsquashfs"
             /\ log[i].off \in Occurrences(srcData)
             /\ i < Len(log) => ~log[i].ok
             /\ \A j \in 1..Len(log) : i < j => log[i].off > log[j].off
             /\ \A o \in Occurrences(srcData) :
                  o > log[i].off => \E j \in 1..(i - 1) : log[j].off = o
        /\ Returned => (result = "True" <=> \E i \in 1..Len(log) : log[i].ok)

C15_Witness ==
    /\ Returned
    /\ "unsquashfs" \in tools
    /\ Len(offsets) = 3
    /\ Len(log) = 2
    /\ ~log[1].ok /\ log[2].ok
    /\ result = "True"

(***************************************************************************)
(* C16.  A failure for one file never aborts the batch: when the run ends, *)
(* every platform of every product whose version was resolved has been     *)
(* dealt with (found already downloaded, found unavailable, or its         *)
(* download and unpack attempted).                                         *)
(***************************************************************************)
C16_EveryPlatformStillProcessed ==
    bStage = "finished" =>
        \A p \in 1..MaxProducts :
            <<p, "version">> \notin bAborted =>
                \A q \in 1..MaxPlatforms : <<p, q>> \in bHandled

(***************************************************************************)
(* C17.  From the moment unpack_archive has an existing archive in hand,   *)
(* through every format class and backend outcome, and after it returned:  *)
(* the archive still exists with the bytes that were downloaded; only its  *)
(* executable bit may have changed, and only for an AppImage.              *)
(***************************************************************************)
CallUnderWay ==
    /\ pc \notin {"start", "unpack"}
    /\ raisedAt # "download"
    /\ result # "AssertionError"

C17_SourceArchiveUntouched ==
    CallUnderWay =>
        /\ srcExists
        /\ srcData = data
        /\ srcExec => class = "AppImageCandidate"

\* the library path ran: image carved into the temp file, an existing
\* destination removed and recreated, temp file unlinked, and the archive
\* is as it was
C17_Witness ==
    /\ Returned
    /\ class = "AppImageCandidate"
    /\ dest0.exists
    /\ dest0.files # {}
    /\ \E i \in 1..Len(log) : log[i].b = "pysquashfs"
    /\ ~tempExists
    /\ srcExists
    /\ srcData = data
    /\ srcExec

(***************************************************************************)
(* C18.  For a file with suffix .dmg that unpack_archive could read, the   *)
(* call returns True at once: no backend is invoked, no temporary file is  *)
(* written, the destination directory has the contents it had before the   *)
(* step, and the source file is as it was downloaded (not even made        *)
(* executable).                                                            *)
(***************************************************************************)
DmgNamed == Lower(Suffix(name)) = DotDmg

C18_DiskImageKeptAsIs ==
    (CallUnderWay /\ DmgNamed /\ raisedAt = "none") =>
        /\ Returned
        /\ result = "True"
        /\ class = "DiskImage"
        /\ log = <<>>
        /\ ~tempExists
        /\ destExists
        /\ destFiles = dest0.files
        /\ srcExists
        /\ srcData = data
        /\ ~srcExec

\* a .dmg went through unpack_archive with a destination that held files
C18_Witness ==
    /\ Returned
    /\ DmgNamed
    /\ class = "DiskImage"
    /\ result = "True"
    /\ dest0.files # {}
    /\ destFiles = dest0.files
    /\ log = <<>>

(***************************************************************************)
(* C19.  The branch unpack_archive takes is the one the seven-rule         *)
(* precedence gives for the lower-cased name and the first two bytes; a    *)
(* .zip name with neither PK nor MZ is Unknown; and for a name that does   *)
(* not end in .zip the branch is the same whatever the file holds.         *)
(***************************************************************************)
\* the precedence as the specification words it, first match wins
SevenRules(lname, two) ==
    IF EndsWith(lname, DotZip) /\ two = MagicPK THEN "Zip"
    ELSE IF EndsWith(lname, DotZip) /\ two = MagicMZ THEN "PEExecutable"
    ELSE IF Suffix(lname) = DotGz
            /\ (EndsWith(lname, DotTarGz) \/ EndsWith(lname, DotTgz))
        THEN "GzipTar"
    ELSE IF Suffix(lname) = DotDmg THEN "DiskImage"
    ELSE IF Suffix(lname) = DotExe THEN "PEExecutable"
    ELSE IF EndsWith(lname, DotAppimage) THEN "AppImageCandidate"
    ELSE "Unknown"

C19_ClassIsSevenRulePrecedence ==
    pc = "classified" =>
        /\ class = SevenRules(Lower(name), Take(srcData, 2))
        /\ (ZipNamed /\ Take(srcData, 2) \notin {MagicPK, MagicMZ}) =>
               class = "Unknown"
        /\ ~ZipNamed =>
               \A other \in ClassifyContents :
                   Classify(name, Take(other, 4)) = class

\* a .zip-named file holding neither magic was classified
C19_Witness ==
    /\ pc = "classified"
    /\ ZipNamed
    /\ Len(srcData) >= 2
    /\ Take(srcData, 2) \notin {MagicPK, MagicMZ}
    /\ class = "Unknown"

(***************************************************************************)
(* C20.  A file whose name ends in .tgz is dispatched to the tar+gzip      *)
(* reader, as a file whose name ends in .tar.gz is.                        *)
(***************************************************************************)
TgzNamed == EndsWith(Lower(name), DotTgz)

C20_TgzGoesToTarReader ==
    (Returned /\ TgzNamed /\ raisedAt = "none" /\ result # "AssertionError") =>
        /\ class = "GzipTar"
        /\ Len(log) = 1
        /\ log[1].b = "tar"

(***************************************************************************)
(* C21.  For an input classified Zip or GzipTar, exactly one backend runs, *)
(* the native reader of that class; unpack_archive returns True iff that   *)
(* reader finished without raising, and False when it raised, whatever it  *)
(* had already written.                                                    *)
(***************************************************************************)
NativeReader == IF class = "Zip" THEN "zip" ELSE "tar"

C21_NativeReaderAloneDecides ==
    class \in {"Zip", "GzipTar"} =>
        /\ ~Returned => log = <<>>
        /\ Returned =>
             /\ Len(log) = 1
             /\ log[1].b = NativeReader
             /\ result = "True" <=> log[1].ok
             /\ ~log[1].ok => result = "False"

\* the tar reader raised after it had written entries, and the call
\* returned False with nothing else tried
C21_Witness ==
    /\ Returned
    /\ class = "GzipTar"
    /\ Len(log) = 1
    /\ ~log[1].ok
    /\ log[1].wrote
    /\ result = "False"

(***************************************************************************)
(* C22.  Once built, and through every later extraction step, the          *)
(* registry has a key for a tool iff an executable for it is on the search *)
(* path: unsquashfs and innoextract under their own names, 7z iff one of   *)
(* 7z, 7za, 7zz is found, bound to the first of them in that order.  A     *)
(* missing tool leaves its key out and nothing else happens.               *)
(***************************************************************************)
SevenZipFound == {i \in 1..Len(SevenZipCommands) : SevenZipCommands[i] \in onPath}

C23_CarvedImageThereWhenLibarchiveReads ==
    pc = "squashfs_libarchive" =>
        /\ tempExists
        /\ tempData = From(srcData, offsets[1])

(***************************************************************************)
(* C24.  Over successive runs, a combination is skipped exactly when an    *)
(* earlier run got True from unpack_archive and recorded it; and the       *)
(* version file says "unpacked" exactly when some run has gone through     *)
(* unpack_archive returning True and mark_downloaded after it.  A run      *)
(* whose download or unpack raised, that was interrupted, or whose unpack  *)
(* returned False therefore leaves the combination to the next run.        *)
(***************************************************************************)
\* the run went through mark_downloaded with this result of unpack_archive
Recorded(r, v) == ~r.skipped /\ ~r.interrupted /\ r.result = v

\* the runs that have decided whether to skip, the current one included
DecidedRuns == IF pc = "check" THEN runLog ELSE Append(runLog, ThisRun)

\* the runs that are over
FinishedRuns == IF pc = "done" THEN Append(runLog, ThisRun) ELSE runLog

C24_SkippedIffEarlierRunRecordedTrue ==
    /\ \A i \in 1..Len(DecidedRuns) :
         DecidedRuns[i].skipped <=>
             \E j \in 1..(i - 1) : Recorded(DecidedRuns[j], "True")
    /\ IsDownloaded(versionFile) <=>
           \E j \in 1..Len(FinishedRuns) : Recorded(FinishedRuns[j], "True")

\* run 1 unpacked to False and recorded it, run 2 tried again and got
\* True, run 3 skipped the combination
C24_Witness ==
    /\ Len(runLog) = 2
    /\ Recorded(runLog[1], "False")
    /\ Recorded(runLog[2], "True")
    /\ pc = "done"
    /\ skipped

(***************************************************************************)
(* C25.  When a file classified AppImage holds no hsqs, the call fails     *)
(* and leaves the extraction state as it found it: no temporary .squashfs  *)
(* file, no backend invoked, the destination directory there with the      *)
(* contents it had, the source bytes as downloaded; only the executable    *)
(* bit of the source has been set.                                         *)
(***************************************************************************)
C25_NoSignatureNoSideEffects ==
    (class = "AppImageCandidate" /\ Occurrences(srcData) = {}) =>
        /\ ~tempExists
        /\ tempData = <<>>
        /\ log = <<>>
        /\ destExists
        /\ destFiles = dest0.files
        /\ srcExists
        /\ srcData = data
        /\ raisedAt = "none" => srcExec
        /\ Returned => result = "False"

\* no unsquashfs registered, a destination holding earlier files, an
\* AppImage without the signature: False, and the earlier files are there
C25_Witness ==
    /\ Returned
    /\ class = "AppImageCandidate"
    /\ Occurrences(srcData) = {}
    /\ Len(srcData) > 4
    /\ "unsquashfs" \notin tools
    /\ dest0.files # {}
    /\ destFiles = dest0.files
    /\ srcExec
    /\ result = "False"

====
